---- MODULE Spec2Model ----
(***************************************************************************)
(* Model of wa-captor/index.js: the relay that turns the 'qr', 'ready' and *)
(* 'message' events of a WhatsApp session client into HTTP POSTs.          *)
(*                                                                         *)
(* A JavaScript string is a sequence of tokens.  Every character the code  *)
(* searches for ('@', ',', a blank, the path '/ingesta') is a token of its *)
(* own, so that split, trim and replace are computed as the code does.     *)
(* A JavaScript value is a tagged record, so that `||`, truthiness and     *)
(* JSON.stringify keep their meaning.                                      *)
(*                                                                         *)
(* Each handler is an async function: the code between two awaits runs     *)
(* atomically (Node's single thread), and handlers of distinct events      *)
(* interleave at their awaits.                                             *)
(***************************************************************************)
EXTENDS Integers, Sequences, FiniteSets, TLC

\* Number of events the session client emits in one run.
MaxEvents == 2

\* The handlers the model follows at a time.  A slot whose handler has ended
\* takes the handler of the next event; what the ended handler left in the
\* slot, its fetch calls in `wire` included, is dropped then.
Slots == {1, 2}

----------------------------------------------------------------------------
\* JavaScript values

Undef == [t |-> "undefined"]
Null == [t |-> "null"]
Str(s) == [t |-> "string", s |-> s]
Bool(b) == [t |-> "boolean", b |-> b]
Num(n) == [t |-> "number", n |-> n]

\* ToBoolean
Truthy(v) ==
  CASE v.t = "undefined" -> FALSE
    [] v.t = "null" -> FALSE
    [] v.t = "string" -> v.s # <<>>
    [] v.t = "boolean" -> v.b
    [] v.t = "number" -> v.n # 0
    [] OTHER -> TRUE

\* a || b
Or(a, b) == IF Truthy(a) THEN a ELSE b

\* Index of the first occurrence of token tok in s, 0 when there is none.
RECURSIVE IndexOf(_, _, _)
IndexOf(s, tok, i) ==
  IF i > Len(s) THEN 0
  ELSE IF s[i] = tok THEN i
  ELSE IndexOf(s, tok, i + 1)

\* String.prototype.split(sep): the pieces between the occurrences of sep.
RECURSIVE Split(_, _)
Split(s, sep) ==
  LET i == IndexOf(s, sep, 1)
  IN IF i = 0 THEN <<s>>
     ELSE <<SubSeq(s, 1, i - 1)>> \o Split(SubSeq(s, i + 1, Len(s)), sep)

\* String.prototype.trim(): blanks removed at both ends.
RECURSIVE Trim(_)
Trim(s) ==
  IF s = <<>> THEN s
  ELSE IF Head(s) = " " THEN Trim(Tail(s))
  ELSE IF s[Len(s)] = " " THEN Trim(SubSeq(s, 1, Len(s) - 1))
  ELSE s

\* String.prototype.replace(pat, rep) with a string pattern: first occurrence only.
Replace(s, pat, rep) ==
  LET i == IndexOf(s, pat, 1)
  IN IF i = 0 THEN s
     ELSE SubSeq(s, 1, i - 1) \o <<rep>> \o SubSeq(s, i + 1, Len(s))

\* Array.prototype.map(f) for f = trim.
MapTrim(a) == [i \in 1..Len(a) |-> Trim(a[i])]

\* Array.prototype.filter(Boolean) on an array of strings.
NonEmpty(s) == s # <<>>
FilterBoolean(a) == SelectSeq(a, NonEmpty)

\* Array.prototype.includes(x) on an array of strings against a JS value.
Includes(a, v) == v.t = "string" /\ \E i \in 1..Len(a) : a[i] = v.s

----------------------------------------------------------------------------
\* Configuration, resolved once from the environment (index.js lines 6-10)

DefaultIA == <<"http://localhost:8000", "/ingesta">>

ResolveIA(e) == Or(e.IA_ENDPOINT, Str(DefaultIA)).s

ResolveQR(e) ==
  Or(e.QR_ENDPOINT, Str(Replace(ResolveIA(e), "/ingesta", "/qr"))).s

ResolveWhitelist(e) ==
  FilterBoolean(MapTrim(Split(Or(e.GROUP_WHITELIST, Str(<<>>)).s, ",")))

ResolveSecret(e) == Or(e.HMAC_SECRET, Str(<<>>)).s

\* The environments a run may start in.
Envs ==
  { [IA_ENDPOINT |-> Undef, QR_ENDPOINT |-> Undef,
     GROUP_WHITELIST |-> Undef, HMAC_SECRET |-> Undef],
    [IA_ENDPOINT |-> Undef, QR_ENDPOINT |-> Undef,
     GROUP_WHITELIST |-> Str(<<"Trabajo", ",", " ", "Familia", " ">>),
     HMAC_SECRET |-> Str(<<"s3cr3t">>)],
    [IA_ENDPOINT |-> Str(<<"http://ia", "/in">>), QR_ENDPOINT |-> Undef,
     GROUP_WHITELIST |-> Str(<<"Trabajo">>), HMAC_SECRET |-> Str(<<>>)],
    [IA_ENDPOINT |-> Str(<<"http://ia", "/ingesta">>),
     QR_ENDPOINT |-> Str(<<"http://qr", "/pub">>),
     GROUP_WHITELIST |-> Str(<<" ", ",">>), HMAC_SECRET |-> Str(<<"k2">>)] }

----------------------------------------------------------------------------
\* What the session client and the network may hand to the handlers

\* A rejected promise / a thrown exception, as the result of an awaited call.
Throws == [t |-> "throws"]

QrCodes == { <<"ABC">>, <<"XYZ">> }

\* qrcode.generate(qr, {small: true}) draws on the terminal or throws.
RenderResults == { "drawn", "throws" }

Msg(from, author, timestamp, body, hasMedia) ==
  [from |-> from, author |-> author, timestamp |-> timestamp,
   body |-> body, hasMedia |-> hasMedia]

RawMessages ==
  { Msg(Str(<<"5491", "@", "c.us">>), Undef, Num(1700), Str(<<"hola">>), Bool(FALSE)),
    Msg(Str(<<"1203", "@", "g.us">>), Str(<<"5492", "@", "c.us">>), Num(1701),
        Str(<<"foto">>), Bool(TRUE)),
    Msg(Str(<<>>), Undef, Num(1702), Str(<<>>), Bool(FALSE)) }

Chat(isGroup, name) == [t |-> "chat", isGroup |-> Bool(isGroup), name |-> Str(name)]

ChatResults ==
  { Throws,
    Chat(FALSE, <<"Familia", " ">>),
    Chat(TRUE, <<"Trabajo">>),
    Chat(TRUE, <<"Familia", " ">>) }

Contact(pushname, name) ==
  [t |-> "contact", pushname |-> pushname, name |-> name,
   shortName |-> Undef, verifiedName |-> Undef]

ContactResults == { Throws, Undef, Contact(Str(<<>>), Str(<<"Ana">>)) }

Media(mimetype, filename, data) ==
  [t |-> "media", mimetype |-> mimetype, filename |-> filename, data |-> data]

MediaResults ==
  { Throws, Undef,
    Media(Str(<<"image/png">>), Undef, Str(<<"iVBOR">>)),
    Media(Str(<<"image/png">>), Str(<<"a.png">>), Str(<<"iVBOR">>)) }

Response(status) == [t |-> "response", status |-> status]

\* node-fetch rejects on a network error or a timeout and resolves with the
\* response, whatever its status, otherwise.
FetchResults == { Throws, Response(200), Response(500) }

----------------------------------------------------------------------------
\* State

VARIABLES
  env,              \* process.env, as far as the code reads it
  IA_ENDPOINT,      \* line 6
  QR_ENDPOINT,      \* line 7
  GROUP_WHITELIST,  \* line 8: array of strings
  HMAC_SECRET,      \* line 10
  emitted,          \* number of events the client has emitted so far
  id,               \* id[h]: the number of the event that handler h handles
  pc,               \* pc[h]: where handler h stands
  event,            \* event[h]: the event
  chat,             \* chat[h]: what msg.getChat() settled with
  lookup,           \* lookup[h]: what the contact lookup settled with
  media,            \* media[h]: what msg.downloadMedia() settled with
  payload,          \* payload[h]: the handler's `payload` object
  request,          \* request[h]: the arguments of the handler's fetch call
  response,         \* response[h]: what the fetch call settled with
  errlog,           \* errlog[h]: what the handler wrote with console.error
  wire              \* the fetch calls of the handlers in the slots, in the
                    \* order they were made: [ev |-> event number, url |-> url]

vars ==
  <<env, IA_ENDPOINT, QR_ENDPOINT, GROUP_WHITELIST, HMAC_SECRET, emitted, id, pc,
    event, chat, lookup, media, payload, request, response, errlog, wire>>

config == <<env, IA_ENDPOINT, QR_ENDPOINT, GROUP_WHITELIST, HMAC_SECRET>>

\* The value of a local that holds nothing (yet).
None == [t |-> "none"]

\* The event of a slot that has had no handler yet.
NoEvent == [kind |-> "none"]

Init ==
  /\ env \in Envs
  /\ IA_ENDPOINT = ResolveIA(env)
  /\ QR_ENDPOINT = ResolveQR(env)
  /\ GROUP_WHITELIST = ResolveWhitelist(env)
  /\ HMAC_SECRET = ResolveSecret(env)
  /\ emitted = 0
  /\ id = [h \in Slots |-> 0]
  /\ pc = [h \in Slots |-> "idle"]
  /\ event = [h \in Slots |-> NoEvent]
  /\ chat = [h \in Slots |-> None]
  /\ lookup = [h \in Slots |-> None]
  /\ media = [h \in Slots |-> None]
  /\ payload = [h \in Slots |-> None]
  /\ request = [h \in Slots |-> None]
  /\ response = [h \in Slots |-> None]
  /\ errlog = [h \in Slots |-> <<>>]
  /\ wire = <<>>

----------------------------------------------------------------------------
\* Objects, serialization, signature

\* An object is the sequence of its <<key, value>> properties in insertion order.
\* As the value of a variable it is tagged like every other value.
Obj(o) == [t |-> "object", o |-> o]

HasKey(obj, k) == \E i \in 1..Len(obj) : obj[i][1] = k

\* obj[k]
Get(obj, k) ==
  IF HasKey(obj, k)
  THEN obj[CHOOSE i \in 1..Len(obj) : obj[i][1] = k][2]
  ELSE Undef

\* obj[k] = v
Assign(obj, k, v) ==
  IF HasKey(obj, k)
  THEN [i \in 1..Len(obj) |-> IF obj[i][1] = k THEN <<k, v>> ELSE obj[i]]
  ELSE Append(obj, <<k, v>>)

\* JSON.stringify(obj): the properties in insertion order, a property whose
\* value is undefined left out, null kept.
Defined(p) == p[2].t # "undefined"
Stringify(obj) == SelectSeq(obj, Defined)

\* crypto.createHmac('sha256', key).update(body).digest('hex'): the digest is
\* kept symbolic, a function of the key and of the signed string only.
HmacHex(key, body) == [alg |-> "sha256", key |-> key, data |-> body, enc |-> "hex"]

ContentType == ("Content-Type" :> "application/json")

\* lines 26-30
QrHeaders(body) ==
  IF Truthy(Str(HMAC_SECRET))
  THEN ("x-signature" :> HmacHex(HMAC_SECRET, body)) @@ ContentType
  ELSE ContentType

\* lines 42-46
ReadyHeaders(body) ==
  IF Truthy(Str(HMAC_SECRET))
  THEN ("x-signature" :> HmacHex(HMAC_SECRET, body)) @@ ContentType
  ELSE ContentType

\* MsgHeaders without the test of HMAC_SECRET.
MsgHeadersAlwaysSigned(body) ==
  ("x-signature" :> HmacHex(HMAC_SECRET, body)) @@ ContentType

\* MsgHeaders with the signature taken over the serialization of the payload
\* as it was before the media properties were set.
MsgHeadersSignedBeforeMedia(body) ==
  LET Early(p) == p[1] \notin {"mimetype", "filename", "data_base64"}
      early == Assign(SelectSeq(body, Early), "type", Str(<<"text">>))
  IN IF Truthy(Str(HMAC_SECRET))
     THEN ("x-signature" :> HmacHex(HMAC_SECRET, early)) @@ ContentType
     ELSE ContentType

\* lines 92-96
MsgHeaders(body) ==
  IF Truthy(Str(HMAC_SECRET))
  THEN ("x-signature" :> HmacHex(HMAC_SECRET, body)) @@ ContentType
  ELSE ContentType

\* The arguments of fetch(url, {method: 'POST', headers, body}).
Post(url, headers, body) ==
  [url |-> url, method |-> "POST", headers |-> headers, body |-> body]

----------------------------------------------------------------------------
\* The message handler's expressions (lines 54-81)

\* line 55: isGroup ? chat.name : null
GroupName(c) == IF Truthy(c.isGroup) THEN c.name ELSE Null

\* Blocked with the group name trimmed before the comparison.
BlockedTrimmed(isGroup, groupName) ==
  /\ Truthy(isGroup)
  /\ Len(GROUP_WHITELIST) # 0
  /\ ~Includes(GROUP_WHITELIST,
               IF groupName.t = "string" THEN Str(Trim(groupName.s)) ELSE groupName)

\* Blocked without the test of isGroup.
BlockedAnyChat(isGroup, groupName) ==
  /\ Len(GROUP_WHITELIST) # 0
  /\ ~Includes(GROUP_WHITELIST, groupName)

\* line 57: the condition under which the handler returns without forwarding
Blocked(isGroup, groupName) ==
  /\ Truthy(isGroup)
  /\ Len(GROUP_WHITELIST) # 0
  /\ ~Includes(GROUP_WHITELIST, groupName)

\* a && b
And(a, b) == IF Truthy(a) THEN b ELSE a

\* lines 60-66: r is what the lookup settled with; a throw leaves senderName null
SenderName(r) ==
  IF r = Throws THEN Null
  ELSE Or(And(r, Or(Or(Or(r.pushname, r.name), r.shortName), r.verifiedName)), Null)

\* SenderNumber with msg.from tried before msg.author.
SenderNumberFromFirst(msg) ==
  Or(Str(Split(Or(Or(msg.from, msg.author), Str(<<>>)).s, "@")[1]), Null)

\* line 67
SenderNumber(msg) ==
  Or(Str(Split(Or(Or(msg.author, msg.from), Str(<<>>)).s, "@")[1]), Null)

\* GroupId without the test of isGroup.
GroupIdAnyChat(msg, c) == msg.from

\* line 68
GroupId(msg, c) == IF Truthy(c.isGroup) THEN msg.from ELSE Null

\* Payload with a count of the fetch calls made so far among its properties.
PayloadNumbered(msg, c, senderName) ==
  << <<"from_", msg.from>>,
     <<"author", Or(msg.author, Null)>>,
     <<"timestamp", msg.timestamp>>,
     <<"isGroup", c.isGroup>>,
     <<"groupName", GroupName(c)>>,
     <<"groupId", GroupId(msg, c)>>,
     <<"senderName", senderName>>,
     <<"senderNumber", SenderNumber(msg)>>,
     <<"type", Str(<<"text">>)>>,
     <<"text", Or(msg.body, Null)>>,
     <<"seq", Num(Len(wire))>> >>

\* lines 70-81
Payload(msg, c, senderName) ==
  << <<"from_", msg.from>>,
     <<"author", Or(msg.author, Null)>>,
     <<"timestamp", msg.timestamp>>,
     <<"isGroup", c.isGroup>>,
     <<"groupName", GroupName(c)>>,
     <<"groupId", GroupId(msg, c)>>,
     <<"senderName", senderName>>,
     <<"senderNumber", SenderNumber(msg)>>,
     <<"type", Str(<<"text">>)>>,
     <<"text", Or(msg.body, Null)>> >>

\* WithMedia without the default of the file name.
WithMediaNoDefault(pl, m) ==
  Assign(Assign(Assign(Assign(pl,
    "type", Str(<<"media">>)),
    "mimetype", m.mimetype),
    "filename", m.filename),
    "data_base64", m.data)

\* lines 85-88, with a media object in hand
WithMedia(pl, m) ==
  Assign(Assign(Assign(Assign(pl,
    "type", Str(<<"media">>)),
    "mimetype", m.mimetype),
    "filename", Or(m.filename, Str(<<"file.bin">>))),
    "data_base64", m.data)

----------------------------------------------------------------------------
\* Handlers.  The client emits its events one at a time; the handler of an
\* event runs up to its first await within the emitting step.

Ended(h) == pc[h] \in {"idle", "returned", "rejected"}

\* The handler of the next event starts in h: a new activation, with new locals.
Starts(h, ev) ==
  /\ emitted < MaxEvents
  /\ Ended(h)
  /\ \A s \in Slots : Ended(s) => h <= s
  /\ emitted' = emitted + 1
  /\ id' = [id EXCEPT ![h] = emitted + 1]
  /\ event' = [event EXCEPT ![h] = ev]
  /\ chat' = [chat EXCEPT ![h] = None]
  /\ lookup' = [lookup EXCEPT ![h] = None]
  /\ media' = [media EXCEPT ![h] = None]
  /\ payload' = [payload EXCEPT ![h] = None]
  /\ response' = [response EXCEPT ![h] = None]
  /\ errlog' = [errlog EXCEPT ![h] = <<>>]
  /\ UNCHANGED config

\* When its fetch settles, a handler has nothing left to do but to log: its
\* locals (chat, contact, media, payload, the fetch arguments) are released.
\* A handler that ends without a fetch call leaves them in its slot, where
\* they tell why it ended.
Released(f, h) == [f EXCEPT ![h] = None]

\* The fetch calls made so far, those of the handler that leaves h forgotten.
NotOf(h) == LET Other(w) == w.ev # id[h] IN SelectSeq(wire, Other)

\* lines 25-31: serialize, sign, call fetch and suspend on it
QrPost(h, qr) ==
  LET body == Stringify(<< <<"qr", qr>> >>)
  IN /\ request' = [request EXCEPT ![h] = Post(QR_ENDPOINT, QrHeaders(body), body)]
     /\ wire' = Append(NotOf(h), [ev |-> id'[h], url |-> QR_ENDPOINT])
     /\ pc' = [pc EXCEPT ![h] = "fetch"]

\* lines 21-31: client.on('qr'); qrcode.generate stands outside the try block,
\* so that its exception rejects the promise of the handler.
OnQr(qr, render) ==
  \E h \in Slots :
    /\ Starts(h, [kind |-> "qr", qr |-> Str(qr)])
    /\ IF render = "throws"
       THEN /\ pc' = [pc EXCEPT ![h] = "rejected"]
            /\ request' = [request EXCEPT ![h] = None]
            /\ wire' = NotOf(h)
       ELSE QrPost(h, Str(qr))

\* QrFetchSettles with the code published once more when the fetch rejects
\* for the first time.
QrFetchSettlesRepublishes(h, r) ==
  /\ pc[h] = "fetch"
  /\ event[h].kind = "qr"
  /\ response' = [response EXCEPT ![h] = r]
  /\ errlog' = [errlog EXCEPT ![h] =
       IF r = Throws THEN Append(@, "No se pudo publicar el QR") ELSE @]
  /\ IF r = Throws /\ response[h] = None
     THEN /\ wire' = Append(wire, [ev |-> id[h], url |-> QR_ENDPOINT])
          /\ UNCHANGED <<pc, request>>
     ELSE /\ pc' = [pc EXCEPT ![h] = "returned"]
          /\ request' = Released(request, h)
          /\ UNCHANGED wire
  /\ UNCHANGED <<config, emitted, id, event, chat, lookup, media, payload>>

\* lines 31-34: the fetch of a qr handler settles with r
QrFetchSettles(h, r) ==
  /\ pc[h] = "fetch"
  /\ event[h].kind = "qr"
  /\ response' = [response EXCEPT ![h] = r]
  /\ errlog' = [errlog EXCEPT ![h] =
       IF r = Throws THEN Append(@, "No se pudo publicar el QR") ELSE @]
  /\ pc' = [pc EXCEPT ![h] = "returned"]
  /\ request' = Released(request, h)
  /\ UNCHANGED <<config, emitted, id, event, chat, lookup, media, payload, wire>>

\* lines 41-47
ReadyPost(h) ==
  LET body == Stringify(<< <<"qr", Null>> >>)
  IN /\ request' = [request EXCEPT ![h] = Post(QR_ENDPOINT, ReadyHeaders(body), body)]
     /\ wire' = Append(NotOf(h), [ev |-> id'[h], url |-> QR_ENDPOINT])
     /\ pc' = [pc EXCEPT ![h] = "fetch"]

\* lines 37-47: client.on('ready')
OnReady ==
  \E h \in Slots :
    /\ Starts(h, [kind |-> "ready"])
    /\ ReadyPost(h)

\* lines 47-48: the fetch of a ready handler settles with r; `catch {}` is empty
ReadyFetchSettles(h, r) ==
  /\ pc[h] = "fetch"
  /\ event[h].kind = "ready"
  /\ response' = [response EXCEPT ![h] = r]
  /\ pc' = [pc EXCEPT ![h] = "returned"]
  /\ request' = Released(request, h)
  /\ UNCHANGED <<config, emitted, id, event, chat, lookup, media, payload,
                 errlog, wire>>

\* lines 51-53: client.on('message'), up to `await msg.getChat()`
OnMessage(msg) ==
  \E h \in Slots :
    /\ Starts(h, [kind |-> "message", msg |-> msg])
    /\ pc' = [pc EXCEPT ![h] = "getChat"]
    /\ request' = [request EXCEPT ![h] = None]
    /\ wire' = NotOf(h)

\* lines 103-105: catch (e) { console.error('Error', e) }
MsgCatch(h) ==
  /\ errlog' = [errlog EXCEPT ![h] = Append(@, "Error")]
  /\ pc' = [pc EXCEPT ![h] = "returned"]

\* lines 53-64: getChat settles with r; the filter; the contact lookup is called
GetChatSettles(h, r) ==
  /\ pc[h] = "getChat"
  /\ chat' = [chat EXCEPT ![h] = r]
  /\ IF r = Throws
     THEN MsgCatch(h)
     ELSE /\ pc' = [pc EXCEPT ![h] =
               IF Blocked(r.isGroup, GroupName(r)) THEN "returned" ELSE "getContact"]
          /\ UNCHANGED errlog
  /\ UNCHANGED <<config, emitted, id, event, lookup, media, payload, request,
                 response, wire>>

\* MsgPost with the fetch call skipped once a fetch has rejected.
MsgPostUnlessSinkDown(h, pl) ==
  LET body == Stringify(pl)
  IN IF \E g \in Slots : response[g] = Throws
     THEN /\ pc' = [pc EXCEPT ![h] = "returned"]
          /\ UNCHANGED <<request, wire>>
     ELSE /\ request' = [request EXCEPT ![h] = Post(IA_ENDPOINT, MsgHeaders(body), body)]
          /\ wire' = Append(wire, [ev |-> id[h], url |-> IA_ENDPOINT])
          /\ pc' = [pc EXCEPT ![h] = "fetch"]

\* lines 91-102: serialize, sign, call fetch and suspend on it
MsgPost(h, pl) ==
  LET body == Stringify(pl)
  IN /\ request' = [request EXCEPT ![h] = Post(IA_ENDPOINT, MsgHeaders(body), body)]
     /\ wire' = Append(wire, [ev |-> id[h], url |-> IA_ENDPOINT])
     /\ pc' = [pc EXCEPT ![h] = "fetch"]

\* ContactSettles without the inner try block: a lookup that throws is caught
\* at line 103.
ContactSettlesNoInnerTry(h, r) ==
  LET msg == event[h].msg
      pl == Payload(msg, chat[h], SenderName(r))
  IN /\ pc[h] = "getContact"
     /\ lookup' = [lookup EXCEPT ![h] = r]
     /\ IF r = Throws
        THEN /\ MsgCatch(h)
             /\ UNCHANGED <<payload, request, wire>>
        ELSE /\ payload' = [payload EXCEPT ![h] = Obj(pl)]
             /\ UNCHANGED errlog
             /\ IF Truthy(msg.hasMedia)
                THEN /\ pc' = [pc EXCEPT ![h] = "downloadMedia"]
                     /\ UNCHANGED <<request, wire>>
                ELSE MsgPost(h, pl)
     /\ UNCHANGED <<config, emitted, id, event, chat, media, response>>

\* lines 62-84: the contact lookup settles with r (getContactById(msg.author)
\* when the message has an author, msg.getContact() otherwise); the payload is
\* built; a message with media goes on to download it, any other is posted
ContactSettles(h, r) ==
  LET msg == event[h].msg
      pl == Payload(msg, chat[h], SenderName(r))
  IN /\ pc[h] = "getContact"
     /\ lookup' = [lookup EXCEPT ![h] = r]
     /\ payload' = [payload EXCEPT ![h] = Obj(pl)]
     /\ IF Truthy(msg.hasMedia)
        THEN /\ pc' = [pc EXCEPT ![h] = "downloadMedia"]
             /\ UNCHANGED <<request, wire>>
        ELSE MsgPost(h, pl)
     /\ UNCHANGED <<config, emitted, id, event, chat, media, response, errlog>>

\* MediaSettles with `if (media)` around lines 85-88: without a media object
\* the payload is posted as it is.
MediaSettlesTextOnly(h, r) ==
  /\ pc[h] = "downloadMedia"
  /\ media' = [media EXCEPT ![h] = r]
  /\ IF r = Throws
     THEN /\ MsgCatch(h)
          /\ UNCHANGED <<payload, request, wire>>
     ELSE LET pl == IF r = Undef THEN payload[h].o ELSE WithMedia(payload[h].o, r)
          IN /\ payload' = [payload EXCEPT ![h] = Obj(pl)]
             /\ MsgPost(h, pl)
             /\ UNCHANGED errlog
  /\ UNCHANGED <<config, emitted, id, event, chat, lookup, response>>

\* MediaSettles with `payload` a variable of the module that the handlers
\* share: after the await the handler finds the payload another handler has
\* built meanwhile, when there is one.
MediaSettlesSharedPayload(h, r) ==
  /\ pc[h] = "downloadMedia"
  /\ media' = [media EXCEPT ![h] = r]
  /\ IF r = Throws \/ r = Undef
     THEN /\ MsgCatch(h)
          /\ UNCHANGED <<payload, request, wire>>
     ELSE LET shared == IF \E g \in Slots \ {h} : payload[g] # None
                        THEN payload[CHOOSE g \in Slots \ {h} : payload[g] # None].o
                        ELSE payload[h].o
              pl == WithMedia(shared, r)
          IN /\ payload' = [payload EXCEPT ![h] = Obj(pl)]
             /\ MsgPost(h, pl)
             /\ UNCHANGED errlog
  /\ UNCHANGED <<config, emitted, id, event, chat, lookup, response>>

\* MediaSettles with the download awaited again for as long as it fails.
MediaSettlesRetriesDownload(h, r) ==
  /\ pc[h] = "downloadMedia"
  /\ media' = [media EXCEPT ![h] = r]
  /\ IF r = Throws \/ r = Undef
     THEN UNCHANGED <<pc, errlog, payload, request, wire>>
     ELSE LET pl == WithMedia(payload[h].o, r)
          IN /\ payload' = [payload EXCEPT ![h] = Obj(pl)]
             /\ MsgPost(h, pl)
             /\ UNCHANGED errlog
  /\ UNCHANGED <<config, emitted, id, event, chat, lookup, response>>

\* lines 84-102: downloadMedia settles with r.  A throw is caught at line 103;
\* so is the TypeError of `media.mimetype` when r is undefined.
MediaSettles(h, r) ==
  /\ pc[h] = "downloadMedia"
  /\ media' = [media EXCEPT ![h] = r]
  /\ IF r = Throws \/ r = Undef
     THEN /\ MsgCatch(h)
          /\ UNCHANGED <<payload, request, wire>>
     ELSE LET pl == WithMedia(payload[h].o, r)
          IN /\ payload' = [payload EXCEPT ![h] = Obj(pl)]
             /\ MsgPost(h, pl)
             /\ UNCHANGED errlog
  /\ UNCHANGED <<config, emitted, id, event, chat, lookup, response>>

\* MsgFetchSettles with the fetch called again when it rejects.
MsgFetchRetries(h, r) ==
  /\ pc[h] = "fetch"
  /\ event[h].kind = "message"
  /\ response' = [response EXCEPT ![h] = r]
  /\ IF r = Throws
     THEN /\ wire' = Append(wire, [ev |-> id[h], url |-> IA_ENDPOINT])
          /\ UNCHANGED <<pc, errlog>>
     ELSE /\ pc' = [pc EXCEPT ![h] = "returned"]
          /\ UNCHANGED <<errlog, wire>>
  /\ UNCHANGED <<config, emitted, id, event, chat, lookup, media, payload, request>>

\* MsgFetchSettles with the request sent once more when the first answer is a
\* status 500.
MsgFetchResendsOnce(h, r) ==
  /\ pc[h] = "fetch"
  /\ event[h].kind = "message"
  /\ response' = [response EXCEPT ![h] = r]
  /\ IF r = Response(500) /\ response[h] = None
     THEN /\ wire' = Append(wire, [ev |-> id[h], url |-> IA_ENDPOINT])
          /\ UNCHANGED <<pc, errlog, chat, lookup, media, payload, request>>
     ELSE /\ IF r = Throws
             THEN MsgCatch(h)
             ELSE /\ pc' = [pc EXCEPT ![h] = "returned"]
                  /\ UNCHANGED errlog
          /\ chat' = Released(chat, h)
          /\ lookup' = Released(lookup, h)
          /\ media' = Released(media, h)
          /\ payload' = Released(payload, h)
          /\ request' = Released(request, h)
          /\ UNCHANGED wire
  /\ UNCHANGED <<config, emitted, id, event>>

\* lines 98-105: the fetch of a message handler settles with r
MsgFetchSettles(h, r) ==
  /\ pc[h] = "fetch"
  /\ event[h].kind = "message"
  /\ response' = [response EXCEPT ![h] = r]
  /\ IF r = Throws
     THEN MsgCatch(h)
     ELSE /\ pc' = [pc EXCEPT ![h] = "returned"]
          /\ UNCHANGED errlog
  /\ chat' = Released(chat, h)
  /\ lookup' = Released(lookup, h)
  /\ media' = Released(media, h)
  /\ payload' = Released(payload, h)
  /\ request' = Released(request, h)
  /\ UNCHANGED <<config, emitted, id, event, wire>>

Next ==
  \/ \E qr \in QrCodes, render \in RenderResults : OnQr(qr, render)
  \/ OnReady
  \/ \E msg \in RawMessages : OnMessage(msg)
  \/ \E h \in Slots, r \in FetchResults : QrFetchSettles(h, r)
  \/ \E h \in Slots, r \in FetchResults : ReadyFetchSettles(h, r)
  \/ \E h \in Slots, r \in ChatResults : GetChatSettles(h, r)
  \/ \E h \in Slots, r \in ContactResults : ContactSettles(h, r)
  \/ \E h \in Slots, r \in MediaResults : MediaSettles(h, r)
  \/ \E h \in Slots, r \in FetchResults : MsgFetchSettles(h, r)

Spec == Init /\ [][Next]_vars

\* The call that handler h awaits settles, with whatever result.
Settles(h) ==
  \/ \E r \in FetchResults : QrFetchSettles(h, r)
  \/ \E r \in FetchResults : ReadyFetchSettles(h, r)
  \/ \E r \in ChatResults : GetChatSettles(h, r)
  \/ \E r \in ContactResults : ContactSettles(h, r)
  \/ \E r \in MediaResults : MediaSettles(h, r)
  \/ \E r \in FetchResults : MsgFetchSettles(h, r)

\* The program under the assumption that every awaited call (getChat, the
\* contact lookup, the media download, the HTTP POST) eventually resolves or
\* rejects.  The event loop then resumes the handler.
FairSpec == Spec /\ \A h \in Slots : WF_vars(Settles(h))

----------------------------------------------------------------------------
\* Properties

\* The number of fetch calls made on behalf of the event of handler h.
Posts(h) == Cardinality({i \in 1..Len(wire) : wire[i].ev = id[h]})

IsMessage(h) == event[h].kind = "message"

\* getChat has settled with a chat object for handler h.
HasChat(h) == IsMessage(h) /\ chat[h].t = "chat"

\* The name of the chat of h is, as it stands, an element of the whitelist.
Whitelisted(h) ==
  \E i \in 1..Len(GROUP_WHITELIST) : GROUP_WHITELIST[i] = chat[h].name.s

\* The chat of h is a group outside a non-empty whitelist.
OutsideWhitelist(h) ==
  /\ HasChat(h)
  /\ chat[h].isGroup.b
  /\ GROUP_WHITELIST # <<>>
  /\ ~Whitelisted(h)

\* C1: a message whose chat is a group, with a non-empty whitelist that does
\* not hold the chat's name exactly as it is, never causes a fetch call: its
\* handler returns without one, and no request is ever built for it.
C1_GroupOutsideWhitelistNeverPosted ==
  \A h \in Slots :
    OutsideWhitelist(h) =>
      /\ Posts(h) = 0
      /\ request[h] = None
      /\ pc[h] = "returned"

\* C1 witness: the handler of a message of the group "Familia " has returned
\* under the whitelist ["Trabajo", "Familia"], while another handler has a
\* POST in flight.
C1_Witness ==
  \E h, g \in Slots :
    /\ OutsideWhitelist(h)
    /\ chat[h].name.s = <<"Familia", " ">>
    /\ pc[h] = "returned"
    /\ pc[g] = "fetch"

\* The download of h, when the message declares media, has given a media object.
MediaOk(h) == Truthy(event[h].msg.hasMedia) => media[h].t = "media"

\* The download of the media that the message of h declares has failed.
MediaFailed(h) ==
  IsMessage(h) /\ Truthy(event[h].msg.hasMedia) /\ media[h] \in {Throws, Undef}

\* C2: when the whitelist is empty or the chat is not a group, whatever the
\* chat's name, a message whose getChat succeeded is not held back: its handler
\* goes on to the lookup and the download, returns without a POST only when
\* the download fails, and once the lookup has settled and the download, if
\* any, has succeeded, its one POST to the ingestion endpoint is issued.
C2_FilterPassesWhenDisabledOrPrivate ==
  \A h \in Slots :
    (HasChat(h) /\ (GROUP_WHITELIST = <<>> \/ ~chat[h].isGroup.b))
    => /\ pc[h] = "returned" => MediaFailed(h)
       /\ (lookup[h] # None /\ MediaOk(h)) =>
            /\ pc[h] = "fetch"
            /\ Posts(h) = 1
            /\ \E i \in 1..Len(wire) : wire[i] = [ev |-> id[h], url |-> IA_ENDPOINT]

\* C2 witness: under a non-empty whitelist two POSTs are in flight, one of a
\* message of a private chat whose name is not in the whitelist, one of a
\* message with media of a group.
C2_Witness ==
  \E h, g \in Slots :
    /\ HasChat(h) /\ ~chat[h].isGroup.b /\ ~Whitelisted(h)
    /\ GROUP_WHITELIST # <<>>
    /\ pc[h] = "fetch" /\ Posts(h) = 1
    /\ HasChat(g) /\ chat[g].isGroup.b /\ Truthy(event[g].msg.hasMedia)
    /\ pc[g] = "fetch" /\ Posts(g) = 1

\* C3: no event, whether qr, ready or message, has more than one fetch call
\* made for it, whatever its fetch settles with.
C3_AtMostOnePostPerEvent ==
  \A h \in Slots : id[h] # 0 => Posts(h) <= 1

\* C3 witness: a handler whose fetch rejected and a handler whose fetch got
\* status 500 have both returned, each with its single fetch call in `wire`.
C3_Witness ==
  \E h, g \in Slots :
    /\ pc[h] = "returned" /\ response[h] = Throws /\ Posts(h) = 1
    /\ pc[g] = "returned" /\ response[g] = Response(500) /\ Posts(g) = 1

\* C4: no handler ends with its promise rejected, whatever step fails.
C4_NoErrorEscapesHandler ==
  \A h \in Slots : pc[h] # "rejected"

\* The headers a request with this body is to carry under the configuration.
HeadersFor(body) ==
  IF HMAC_SECRET = <<>>
  THEN ContentType
  ELSE ("x-signature" :> HmacHex(HMAC_SECRET, body)) @@ ContentType

\* The payload of message handler h with senderName as given, from the event
\* and from what getChat and downloadMedia settled with.
PayloadWith(h, senderName) ==
  LET msg == event[h].msg
      base == Payload(msg, chat[h], senderName)
  IN IF Truthy(msg.hasMedia) THEN WithMedia(base, media[h]) ELSE base

\* The request of handler h, from its own event, its own awaited results and
\* the configuration.
OwnRequest(h) ==
  LET body ==
        CASE event[h].kind = "qr" -> << <<"qr", event[h].qr>> >>
          [] event[h].kind = "ready" -> << <<"qr", Null>> >>
          [] event[h].kind = "message" ->
               Stringify(PayloadWith(h, SenderName(lookup[h])))
  IN Post(IF IsMessage(h) THEN IA_ENDPOINT ELSE QR_ENDPOINT, HeadersFor(body), body)

\* The event of h normalizes and passes the filter: the QR code was drawn;
\* getChat gave a chat that the filter lets through, the lookup has settled
\* and the download, if any, gave a media object.
Deliverable(h) ==
  CASE event[h].kind = "qr" -> pc[h] # "rejected"
    [] event[h].kind = "ready" -> TRUE
    [] event[h].kind = "message" ->
         /\ HasChat(h)
         /\ ~OutsideWhitelist(h)
         /\ lookup[h] # None
         /\ MediaOk(h)
    [] OTHER -> FALSE

DeliveryFailed(h) ==
  \/ response[h] = Throws
  \/ response[h].t = "response" /\ response[h].status \notin 200..299

\* C6: a handler whose POST failed (network error, timeout, non-2xx answer)
\* has written an error log entry by the time it completes.
C6_FailedDeliveryIsLogged ==
  \A h \in Slots :
    (pc[h] = "returned" /\ DeliveryFailed(h)) => errlog[h] # <<>>

\* C7: when the download of declared media throws or gives no media object,
\* no fetch call is made for the event and no request is built, an error is
\* logged, and the handler returns.
C7_MediaFailureDropsEvent ==
  \A h \in Slots :
    MediaFailed(h) =>
      /\ Posts(h) = 0
      /\ request[h] = None
      /\ errlog[h] = <<"Error">>
      /\ pc[h] = "returned"

\* C7 witness: one handler whose download threw and one whose download gave
\* undefined have returned.
C7_Witness ==
  \E h, g \in Slots :
    /\ MediaFailed(h) /\ media[h] = Throws /\ pc[h] = "returned"
    /\ MediaFailed(g) /\ media[g] = Undef /\ pc[g] = "returned"

\* The contact lookup of h threw or found no contact.
LookupFailed(h) == IsMessage(h) /\ lookup[h] \in {Throws, Undef}

\* The keys of a serialized object.
Keys(body) == {body[i][1] : i \in 1..Len(body)}

\* The body of h has senderName null and is otherwise what it would be had
\* the lookup given the contact c.
DegradedOnly(h, c) ==
  LET body == request[h].body
      full == Stringify(PayloadWith(h, SenderName(c)))
  IN /\ Get(body, "senderName") = Null
     /\ Keys(body) = Keys(full)
     /\ \A k \in Keys(body) \ {"senderName"} : Get(body, k) = Get(full, k)

\* C8 as claimed: a message that passes the filter and whose contact lookup
\* fails is POSTed, once its handler has returned, with senderName null.
C8_LookupFailureAlwaysPosted ==
  \A h \in Slots :
    (LookupFailed(h) /\ pc[h] = "returned")
    => Posts(h) = 1 /\ Get(request[h].body, "senderName") = Null

\* C8 as amended: a message that passes the filter, whose contact lookup fails
\* and whose media download, if any, succeeds is POSTed once, with senderName
\* null and every other field as with a successful lookup.
C8_LookupFailureDegradesEnvelope ==
  \A h \in Slots :
    (LookupFailed(h) /\ MediaOk(h))
    => /\ Posts(h) = 1
       /\ pc[h] = "fetch"
       /\ request[h].url = IA_ENDPOINT
       /\ \A c \in ContactResults : c.t = "contact" => DegradedOnly(h, c)

\* C8 witness: a lookup that threw and a lookup that found no contact, the
\* first for a message with media; both POSTs are in flight.
C8_Witness ==
  \E h, g \in Slots :
    /\ lookup[h] = Throws /\ media[h].t = "media" /\ pc[h] = "fetch"
    /\ lookup[g] = Undef /\ IsMessage(g) /\ pc[g] = "fetch"

\* C9: with HMAC_SECRET absent from the environment or empty, the request of
\* every fetch call, seen while the call is in flight, carries the header
\* Content-Type: application/json and no other.
C9_UnsignedMode ==
  (env.HMAC_SECRET = Undef \/ env.HMAC_SECRET = Str(<<>>))
  => \A h \in Slots :
       pc[h] = "fetch" =>
         /\ DOMAIN request[h].headers = {"Content-Type"}
         /\ request[h].headers["Content-Type"] = "application/json"

\* C9 witness: under an empty HMAC_SECRET a message POST and a qr or ready
\* POST are in flight.
C9_Witness ==
  \E h, g \in Slots :
    /\ env.HMAC_SECRET = Str(<<>>)
    /\ IsMessage(h) /\ pc[h] = "fetch"
    /\ ~IsMessage(g) /\ pc[g] = "fetch"

\* C10: with a non-empty HMAC_SECRET, the request of every fetch call, seen
\* while the call is in flight, carries, besides Content-Type, an x-signature
\* that is the HMAC under HMAC_SECRET of the very body of that request;
\* requests with equal bodies carry equal signatures.
C10_SignedMode ==
  HMAC_SECRET # <<>>
  => \A h \in Slots :
       pc[h] = "fetch" =>
         /\ DOMAIN request[h].headers = {"Content-Type", "x-signature"}
         /\ request[h].headers["Content-Type"] = "application/json"
         /\ request[h].headers["x-signature"] = HmacHex(HMAC_SECRET, request[h].body)
         /\ \A g \in Slots :
              (pc[g] = "fetch" /\ request[g].body = request[h].body)
              => request[g].headers["x-signature"] = request[h].headers["x-signature"]

\* C10 witness: under a non-empty HMAC_SECRET the POST of a message with
\* media and the POST of a ready event are in flight.
C10_Witness ==
  \E h, g \in Slots :
    /\ HMAC_SECRET # <<>>
    /\ IsMessage(h) /\ media[h].t = "media" /\ pc[h] = "fetch"
    /\ event[g].kind = "ready" /\ pc[g] = "fetch"

\* The POST of message handler h is in flight: request[h].body is the
\* serialized envelope.
Posted(h) == IsMessage(h) /\ pc[h] = "fetch"

\* The envelope has the key k with a value other than null.
Present(body, k) == HasKey(body, k) /\ Get(body, k) # Null

TextShape(body) ==
  /\ Get(body, "type") = Str(<<"text">>)
  /\ Present(body, "text")
  /\ ~Present(body, "mimetype")
  /\ ~Present(body, "filename")
  /\ ~Present(body, "data_base64")

MediaShape(body) ==
  /\ Get(body, "type") = Str(<<"media">>)
  /\ Present(body, "mimetype")
  /\ Present(body, "filename")
  /\ Present(body, "data_base64")
  /\ ~Present(body, "text")

\* C11: every message envelope POSTed is of exactly one of two shapes: type
\* text with a text and none of mimetype, filename, data_base64; or type media
\* with those three and no text.  A media message with a caption and a text
\* message with an empty body are among the messages.
C11_TextMediaExclusive ==
  \A h \in Slots :
    Posted(h) => (TextShape(request[h].body) # MediaShape(request[h].body))

\* The part of string s before its first '@', all of s when it has none.
BeforeAt(s) ==
  IF \E i \in 1..Len(s) : s[i] = "@"
  THEN SubSeq(s, 1, (CHOOSE i \in 1..Len(s) :
                        s[i] = "@" /\ \A j \in 1..(i - 1) : s[j] # "@") - 1)
  ELSE s

\* The field senderNumber is taken from: author when the message has one,
\* from otherwise.
NumberSource(msg) ==
  IF msg.author.t = "string" /\ msg.author.s # <<>> THEN msg.author ELSE msg.from

\* C12: in every message envelope POSTed, senderNumber is the part before the
\* first '@' of author when the message has an author, of from otherwise, and
\* is null when that field is empty.
C12_SenderNumberIsPrefix ==
  \A h \in Slots :
    Posted(h) =>
      LET src == NumberSource(event[h].msg)
      IN Get(request[h].body, "senderNumber") =
           IF src.t # "string" \/ src.s = <<>> THEN Null ELSE Str(BeforeAt(src.s))

\* C12 witness: the POSTs of a message with an author and of a message with
\* neither author nor from are in flight.
C12_Witness ==
  \E h, g \in Slots :
    /\ Posted(h) /\ event[h].msg.author = Str(<<"5492", "@", "c.us">>)
    /\ Get(request[h].body, "senderNumber") = Str(<<"5492">>)
    /\ Posted(g) /\ event[g].msg.from = Str(<<>>)
    /\ Get(request[g].body, "senderNumber") = Null

\* The URLs of the fetch calls made for the event of handler h.
UrlsOf(h) == {wire[i].url : i \in {j \in 1..Len(wire) : wire[j].ev = id[h]}}

\* C13: every qr event with code c (whose code could be drawn, see C4) causes
\* a POST of {qr: c} to the QR URL, every ready event a POST of {qr: null} to
\* the same URL, and neither ever POSTs to the ingestion URL; every POST of
\* the message handler goes to the ingestion URL and never to the QR URL.
C13_EventsRoutedToTheirSink ==
  \A h \in Slots :
    /\ (event[h].kind = "qr" /\ pc[h] # "rejected") =>
         /\ UrlsOf(h) = {QR_ENDPOINT}
         /\ IA_ENDPOINT \notin UrlsOf(h)
         /\ pc[h] = "fetch" => request[h].body = << <<"qr", event[h].qr>> >>
    /\ event[h].kind = "ready" =>
         /\ UrlsOf(h) = {QR_ENDPOINT}
         /\ IA_ENDPOINT \notin UrlsOf(h)
         /\ pc[h] = "fetch" => request[h].body = << <<"qr", Null>> >>
    /\ event[h].kind = "message" =>
         /\ UrlsOf(h) \subseteq {IA_ENDPOINT}
         /\ QR_ENDPOINT \notin UrlsOf(h)

\* C14 as claimed: every message envelope POSTed has the key `from` with the
\* chat identifier of the raw message; groupId equals it when isGroup is
\* true; groupId and groupName are null when isGroup is false.
C14_EnvelopeHasFrom ==
  \A h \in Slots :
    Posted(h) =>
      LET body == request[h].body
      IN /\ HasKey(body, "from")
         /\ Get(body, "from") = event[h].msg.from
         /\ Get(body, "isGroup") = Bool(TRUE) => Get(body, "groupId") = Get(body, "from")
         /\ Get(body, "isGroup") = Bool(FALSE) =>
              Get(body, "groupId") = Null /\ Get(body, "groupName") = Null

\* C14 as amended: the key is `from_`, and the envelope has no key `from`;
\* the rest as claimed.
C14_EnvelopeHasFromUnderscore ==
  \A h \in Slots :
    Posted(h) =>
      LET body == request[h].body
      IN /\ HasKey(body, "from_")
         /\ ~HasKey(body, "from")
         /\ Get(body, "from_") = event[h].msg.from
         /\ Get(body, "isGroup") \in {Bool(TRUE), Bool(FALSE)}
         /\ Get(body, "isGroup") = chat[h].isGroup
         /\ Get(body, "isGroup") = Bool(TRUE) =>
              /\ Get(body, "groupId") = Get(body, "from_")
              /\ Get(body, "groupName") = chat[h].name
         /\ Get(body, "isGroup") = Bool(FALSE) =>
              Get(body, "groupId") = Null /\ Get(body, "groupName") = Null

\* C14 witness: the POSTs of a message of a group and of a message of a
\* private chat are in flight.
C14_Witness ==
  \E h, g \in Slots :
    /\ Posted(h) /\ Get(request[h].body, "isGroup") = Bool(TRUE)
    /\ Get(request[h].body, "groupId") = Str(<<"1203", "@", "g.us">>)
    /\ Posted(g) /\ Get(request[g].body, "isGroup") = Bool(FALSE)
    /\ Get(request[g].body, "from_") = Str(<<"5491", "@", "c.us">>)

\* C15: every message envelope POSTed has type media when the raw message
\* declares media and type text otherwise; a media envelope has the mimetype
\* the download reported and the file name of the download, "file.bin" when
\* the download gave none.
C15_TypeFollowsHasMedia ==
  \A h \in Slots :
    Posted(h) =>
      LET body == request[h].body
      IN IF event[h].msg.hasMedia = Bool(TRUE)
         THEN /\ Get(body, "type") = Str(<<"media">>)
              /\ Get(body, "mimetype") = media[h].mimetype
              /\ Get(body, "filename") =
                   IF media[h].filename.t = "string" /\ media[h].filename.s # <<>>
                   THEN media[h].filename
                   ELSE Str(<<"file.bin">>)
         ELSE /\ Get(body, "type") = Str(<<"text">>)
              /\ ~HasKey(body, "mimetype")
              /\ ~HasKey(body, "filename")

\* C15 witness: the POSTs of a media message whose download named no file and
\* of a text message are in flight.
C15_Witness ==
  \E h, g \in Slots :
    /\ Posted(h) /\ media[h].t = "media" /\ media[h].filename = Undef
    /\ Get(request[h].body, "filename") = Str(<<"file.bin">>)
    /\ Posted(g) /\ event[g].msg.hasMedia = Bool(FALSE)
    /\ Get(request[g].body, "type") = Str(<<"text">>)

\* C16 as claimed: two message events that carry the same raw message, under
\* the same configuration, are POSTed with equal bodies.
C16_SameMessageSameBody ==
  \A h, g \in Slots :
    (Posted(h) /\ Posted(g) /\ event[h].msg = event[g].msg)
    => request[h].body = request[g].body

\* The awaited calls of h and g have settled, and with the same results: the
\* same chat, the same outcome of the lookup, the same media when the message
\* declares media.
SettledAlike(h, g) ==
  /\ HasChat(h) /\ chat[g] = chat[h]
  /\ lookup[h] # None /\ lookup[g] = lookup[h]
  /\ MediaOk(h) /\ media[g] = media[h]

\* C16 as amended: two message events that carry the same raw message, under
\* the same configuration, and whose awaited calls (getChat, contact lookup,
\* media download) settle with the same results, are both POSTed, with equal
\* bodies, headers and URLs; nothing the first handling leaves behind shows
\* in the second.
C16_SameMessageSameResultsSameBody ==
  \A h, g \in Slots :
    (/\ IsMessage(h) /\ IsMessage(g)
     /\ event[h].msg = event[g].msg
     /\ SettledAlike(h, g))
    => /\ Posted(h) /\ Posted(g)
       /\ request[h] = request[g]

\* C16 witness: the same media message has been handled twice, with the same
\* chat, contact and media, and both POSTs are in flight.
C16_Witness ==
  \E h, g \in Slots :
    /\ id[h] < id[g]
    /\ Posted(h) /\ Posted(g)
    /\ event[h].msg = event[g].msg
    /\ SettledAlike(h, g)
    /\ lookup[h].t = "contact" /\ media[h].t = "media"

\* The kind of the event with number e, an event whose handler is in a slot.
KindOf(e) == event[CHOOSE h \in Slots : id[h] = e].kind

\* C17 as claimed: the POSTs of message events are issued in the order in
\* which the events were emitted.
C17_IngestionPostsInEmissionOrder ==
  \A i, j \in 1..Len(wire) :
    (i < j /\ KindOf(wire[i].ev) = "message" /\ KindOf(wire[j].ev) = "message")
    => wire[i].ev < wire[j].ev

\* Handler h is suspended at an awaited call that precedes its POST.
Suspended(h) == pc[h] \in {"getChat", "getContact", "downloadMedia"}

\* In this step a fetch call is made for the event that handler g handles.
IssuesPost(g) ==
  /\ id'[g] = id[g]
  /\ Cardinality({i \in 1..Len(wire') : wire'[i].ev = id[g]}) > Posts(g)

\* C17 as amended: the POST of message A, emitted before message B, is issued
\* before the POST of B provided the handler of A is no longer suspended at
\* getChat, the contact lookup or the media download when the POST of B is
\* issued.  In steps: a POST issued after the POST of a later message is the
\* first POST of a handler that was suspended until this very step.
C17_OvertakenOnlyWhileSuspended ==
  [][\A g, h \in Slots :
       (/\ IsMessage(g) /\ IsMessage(h)
        /\ id[g] < id[h]
        /\ Posts(h) >= 1
        /\ IssuesPost(g))
       => Suspended(g) /\ Posts(g) = 0]_vars

\* C17 witness: two message POSTs are in flight, that of the message emitted
\* second issued first, the first message being one with media.
C17_Witness ==
  \E h, g \in Slots :
    /\ Posted(g) /\ Posted(h) /\ id[g] < id[h]
    /\ media[g].t = "media"
    /\ wire = << [ev |-> id[h], url |-> IA_ENDPOINT], [ev |-> id[g], url |-> IA_ENDPOINT] >>

\* The event with number e is a qr or a ready event.
ForQrSink(e) == KindOf(e) \in {"qr", "ready"}

\* C18: the qr and ready handlers call fetch within the step that emits their
\* event, so that in every interleaving a POST of a qr or ready event is
\* issued after the POSTs of earlier events only: the POSTs of qr and ready
\* events are in emission order, and {qr: null} of a ready event comes after
\* the {qr: code} of every earlier qr event.
C18_QrSinkInEmissionOrder ==
  /\ \A i, j \in 1..Len(wire) :
       (i < j /\ ForQrSink(wire[j].ev)) => wire[i].ev < wire[j].ev
  /\ \A h \in Slots :
       (event[h].kind \in {"qr", "ready"} /\ pc[h] # "rejected") => Posts(h) >= 1

\* C18 witness: a qr event and then a ready event; the code and, after it, the
\* sentinel are on their way to the QR URL.
C18_Witness ==
  \E h, g \in Slots :
    /\ event[h].kind = "qr" /\ event[g].kind = "ready"
    /\ id[h] < id[g]
    /\ pc[h] = "fetch" /\ pc[g] = "fetch"
    /\ request[h].body = << <<"qr", Str(<<"ABC">>)>> >>
    /\ request[g].body = << <<"qr", Null>> >>
    /\ wire = << [ev |-> id[h], url |-> QR_ENDPOINT], [ev |-> id[g], url |-> QR_ENDPOINT] >>

\* C19: while handlers of distinct events interleave, what a handler builds
\* and POSTs is determined by its own event, its own awaited results and the
\* configuration: the payload it holds across the media download and the
\* request of its fetch call are those computed from its own slot alone.  The
\* configuration is what the environment resolved to at startup, and no step
\* changes it.
C19_HandlersIndependent ==
  /\ [](\A h \in Slots :
          /\ pc[h] = "downloadMedia" =>
               payload[h] = Obj(Payload(event[h].msg, chat[h], SenderName(lookup[h])))
          /\ pc[h] = "fetch" =>
               /\ request[h] = OwnRequest(h)
               /\ IsMessage(h) => Stringify(payload[h].o) = request[h].body)
  /\ [](/\ IA_ENDPOINT = ResolveIA(env)
        /\ QR_ENDPOINT = ResolveQR(env)
        /\ GROUP_WHITELIST = ResolveWhitelist(env)
        /\ HMAC_SECRET = ResolveSecret(env))
  /\ [][config' = config]_vars

\* C19 witness: the handlers of two different messages have interleaved, the
\* later one passing its lookup while the earlier one was downloading; both
\* POSTs are in flight, with different bodies.
C19_Witness ==
  \E h, g \in Slots :
    /\ Posted(h) /\ Posted(g)
    /\ id[h] < id[g]
    /\ media[h].t = "media"
    /\ event[h].msg # event[g].msg
    /\ request[h].body # request[g].body
    /\ wire[1].ev = id[g]

\* C20: if every awaited call eventually settles, every handler that has
\* started ends: it returns (delivered, filtered out, or dropped with an error
\* logged) or, the qr handler, rejects; none waits forever or loops.
C20_HandlersTerminate ==
  \A h \in Slots : (~Ended(h)) ~> Ended(h)

\* C20 witness: a message handler has gone through getChat, the lookup, the
\* download and the POST and has returned, next to a handler that returned at
\* the filter or in its catch block.
C20_Witness ==
  \E h, g \in Slots :
    /\ IsMessage(h) /\ event[h].msg.hasMedia = Bool(TRUE)
    /\ pc[h] = "returned" /\ response[h] = Response(200)
    /\ IsMessage(g) /\ pc[g] = "returned" /\ Posts(g) = 0

====
